---- MODULE Spec2Model ----
(***************************************************************************)
(* Model of the screen recorder front end (the App component) of the      *)
(* MERN screen recorder.                                                   *)
(*                                                                         *)
(* The React state of App is one variable per useState cell.  A function   *)
(* of the component body (startRecording, stopRecording, the recorder      *)
(* handlers, the interval callback) is a closure over the state values of  *)
(* the render that created it, so every handler that outlives its render   *)
(* carries the values it captured: closure[s] for the invocation s of      *)
(* startRecording and the handlers it installs, timerClosure for the       *)
(* interval callback.  Handlers bound to buttons run with the values of    *)
(* the latest render, which are the current values of the variables.       *)
(*                                                                         *)
(* Every invocation of startRecording is a session s in Sessions; 0 stands *)
(* for null where a state cell holds a stream, a recorder or a blob.       *)
(*                                                                         *)
(* A blob is the record of its type and of the data it was built from; a   *)
(* state cell that holds a blob holds the session whose onstop built it.   *)
(*                                                                         *)
(* Spec is the recording life cycle of App.  EncoderSpec is that life      *)
(* cycle with the data a recorder delivers in every timeslice, the         *)
(* interval that counts the elapsed time left out.  ClientSpec is what     *)
(* follows a finished recording: handleUpload of App and fetchRecordings   *)
(* of the RecordingsList that App renders, with the answers of the         *)
(* service chosen freely.  ServerSpec is the service: the Express          *)
(* handlers, the uploads directory and the recordings table, with          *)
(* requests chosen freely.                                                 *)
(***************************************************************************)
EXTENDS Integers, FiniteSets, Sequences, TLC

MaxSessions == 2

MAX_RECORDING_TIME == 180

\* track.stop() calls are counted up to MaxStopCalls
MaxStopCalls == 2

Sessions == 1..MaxSessions

TrackKinds == {"screenVideo", "screenAudio", "micAudio"}

DisplayKinds == {"screenVideo", "screenAudio"}

MimeTypes == {"video/webm;codecs=vp9", "video/webm"}

MaxUploads == 2

\* the invocations of handleUpload
Uploads == 1..MaxUploads

\* the invocations of fetchRecordings: one when RecordingsList mounts and one
\* for every change of refreshKey
ListRequests == 1..(MaxUploads + 1)

\* the response statuses of POST /api/recordings
PostStatuses == {201, 400, 500}

\* the bodies a GET of /api/recordings is answered with: the array of the
\* rows (their ids, first row first), or something that is not an array
ListBodies ==
    {[isArray |-> TRUE, rows |-> <<>>], [isArray |-> TRUE, rows |-> <<1>>],
     [isArray |-> TRUE, rows |-> <<2, 1>>], [isArray |-> FALSE, rows |-> <<>>]}

NoBody == [isArray |-> FALSE, rows |-> <<>>]

\* POST requests that carry a file
MaxPosts == 2

\* the clock of the server host runs from 0 to MaxNow, in ticks of which
\* TicksPerSecond make one second: Date.now() is the tick, CURRENT_TIMESTAMP
\* the second
MaxNow == 2

TicksPerSecond == 2

\* Math.round(Math.random() * 1E9) draws from 1..MaxRand
MaxRand == 2

\* the file contents a POST carries, as sequences of bytes
Payloads == {<<1>>, <<2>>, <<1, 2>>}

\* dataavailable events of the timeslice a recorder fires while it records
MaxChunks == 1

\* event.data.size of a dataavailable event: empty or not
ChunkSizes == {0, 1}

VARIABLES
    hasGetDisplayMedia,  \* navigator.mediaDevices.getDisplayMedia exists
    supportedTypes,      \* the types MediaRecorder.isTypeSupported accepts
    isRecording,
    mediaRecorder,
    recordedChunks,
    recordingUrl,
    uploadStatus,
    recordingTime,
    stream,
    error,
    timerClosure,        \* stopRecording as captured by the interval callback
    pc,                  \* position of each startRecording invocation
    closure,             \* state values captured by each invocation
    tracks,              \* device tracks each invocation acquired
    ended,               \* tracks whose readyState is "ended"
    stopCalls,           \* number of track.stop() calls per track
    recorder,            \* MediaRecorder.state of each invocation's recorder
    stopQueued,          \* the recorder's stop event is queued
    onstopRuns,          \* number of times recorder.onstop ran
    mimeType,            \* the const mimeType of each invocation
    delivered,           \* the dataavailable events each recorder fired
    chunks,              \* the const chunks of each invocation
    blobs,               \* the blob each recorder's onstop created
    refreshKey,
    upPc,                \* position of each handleUpload invocation
    upBlob,              \* the blob each handleUpload sent
    upAnswer,            \* the status the service answered an upload with
    upTimer,             \* the delayed setUploadStatus('') of an upload is pending
    recordings,          \* RecordingsList: the displayed recordings
    loading,
    listError,
    lq,                  \* position of each fetchRecordings invocation
    lqBody,              \* the body each fetchRecordings received
    now,                 \* the clock of the server host
    files,               \* the uploads directory: file name -> content
    rows,                \* the recordings table, in insertion order
    nextId,              \* AUTO_INCREMENT of recordings.id
    pending,             \* files multer stored whose handler has not run yet
    posts,               \* POST requests with a file received so far
    resp,                \* the last response the server sent
    sent                 \* recordingId -> content of the POST answered with it

vars == <<hasGetDisplayMedia, supportedTypes, isRecording,
          mediaRecorder, recordedChunks, recordingUrl, uploadStatus,
          recordingTime, stream, error, timerClosure, pc, closure, tracks,
          ended, stopCalls, recorder, stopQueued, onstopRuns,
          mimeType, delivered, chunks, blobs,
          refreshKey, upPc, upBlob, upAnswer, upTimer,
          recordings, loading, listError, lq, lqBody,
          now, files, rows, nextId, pending, posts, resp, sent>>

platform == <<hasGetDisplayMedia, supportedTypes>>

uploadVars == <<refreshKey, upPc, upBlob, upAnswer, upTimer>>

listVars == <<recordings, loading, listError, lq, lqBody>>

serverVars == <<now, files, rows, nextId, pending, posts, resp, sent>>

\* what the recording life cycle leaves alone
elsewhere == <<uploadVars, listVars, serverVars>>

\* the state of App before any upload
UploadInit ==
    /\ refreshKey = 0
    /\ upPc = [u \in Uploads |-> "unused"]
    /\ upBlob = [u \in Uploads |-> 0]
    /\ upAnswer = [u \in Uploads |-> 0]
    /\ upTimer = [u \in Uploads |-> FALSE]

NoResponse == [kind |-> "none", status |-> 0, id |-> 0, body |-> <<>>,
               rows |-> <<>>]

\* file.fieldname + '-' + Date.now() + '-' + random + '.webm'
FileName(field, t, r) == [prefix |-> field, time |-> t, rand |-> r]

\* the server once started on an empty database: no file, no row
ServerInit ==
    /\ now = 0
    /\ files = [n \in {} |-> <<>>]
    /\ rows = <<>>
    /\ nextId = 1
    /\ pending = <<>>
    /\ posts = 0
    /\ resp = NoResponse
    /\ sent = [i \in {} |-> <<>>]

\* RecordingsList once mounted: its first fetchRecordings is in flight
ListInit ==
    /\ recordings = <<>>
    /\ loading = TRUE
    /\ listError = ""
    /\ lq = [q \in ListRequests |-> IF q = 1 THEN "inflight" ELSE "unused"]
    /\ lqBody = [q \in ListRequests |-> NoBody]

NoClosure == [isRecording |-> FALSE, mediaRecorder |-> 0, stream |-> 0]

NoBlob == [type |-> "", parts |-> <<>>]

\* no recorder has been constructed
EncoderInit ==
    /\ mimeType = [s \in Sessions |-> ""]
    /\ delivered = [s \in Sessions |-> <<>>]
    /\ chunks = [s \in Sessions |-> <<>>]
    /\ blobs = [s \in Sessions |-> NoBlob]

CurrentRender ==
    [isRecording |-> isRecording, mediaRecorder |-> mediaRecorder,
     stream |-> stream]

Init ==
    /\ hasGetDisplayMedia \in BOOLEAN
    /\ supportedTypes \in SUBSET MimeTypes
    /\ isRecording = FALSE
    /\ mediaRecorder = 0
    /\ recordedChunks = 0
    /\ recordingUrl = 0
    /\ uploadStatus = ""
    /\ recordingTime = 0
    /\ stream = 0
    /\ error = ""
    /\ timerClosure = NoClosure
    /\ pc = [s \in Sessions |-> "unused"]
    /\ closure = [s \in Sessions |-> NoClosure]
    /\ tracks = [s \in Sessions |-> {}]
    /\ ended = [s \in Sessions |-> {}]
    /\ stopCalls = [s \in Sessions |-> [t \in TrackKinds |-> 0]]
    /\ recorder = [s \in Sessions |-> "none"]
    /\ stopQueued = [s \in Sessions |-> FALSE]
    /\ onstopRuns = [s \in Sessions |-> 0]
    /\ EncoderInit
    /\ UploadInit
    /\ ListInit
    /\ ServerInit

(***************************************************************************)
(* The state a handler reads and writes, as one record, so that the        *)
(* statements of a handler compose in program order.                       *)
(***************************************************************************)
Cur ==
    [isRecording |-> isRecording, mediaRecorder |-> mediaRecorder,
     recordedChunks |-> recordedChunks, recordingUrl |-> recordingUrl,
     uploadStatus |-> uploadStatus, recordingTime |-> recordingTime,
     stream |-> stream, error |-> error, recorder |-> recorder,
     stopQueued |-> stopQueued, ended |-> ended, stopCalls |-> stopCalls,
     onstopRuns |-> onstopRuns, mimeType |-> mimeType,
     delivered |-> delivered, chunks |-> chunks, blobs |-> blobs]

\* one more stop call on a track that has had n
CountStop(n) == IF n < MaxStopCalls THEN n + 1 ELSE MaxStopCalls

\* mutant: getVideoTracks() in place of getTracks()
StopTracks_VideoOnly(st, tr, s) ==
    IF s = 0 THEN st
    ELSE [st EXCEPT !.ended[s] = @ \cup (tr[s] \cap {"screenVideo"}),
                    !.stopCalls[s] =
                        [t \in TrackKinds |->
                            IF t \in tr[s] /\ t = "screenVideo"
                            THEN CountStop(@[t])
                            ELSE @[t]]]

\* mutant: getAudioTracks() in place of getTracks()
StopTracks_AudioOnly(st, tr, s) ==
    IF s = 0 THEN st
    ELSE [st EXCEPT !.ended[s] = @ \cup (tr[s] \ {"screenVideo"}),
                    !.stopCalls[s] =
                        [t \in TrackKinds |->
                            IF t \in tr[s] /\ t # "screenVideo"
                            THEN CountStop(@[t])
                            ELSE @[t]]]

\* stream.getTracks().forEach(track => track.stop()) on the stream of s
StopTracks(st, tr, s) ==
    IF s = 0 THEN st
    ELSE [st EXCEPT !.ended[s] = @ \cup tr[s],
                    !.stopCalls[s] =
                        [t \in TrackKinds |->
                            IF t \in tr[s] THEN CountStop(@[t])
                            ELSE @[t]]]

\* MediaRecorder.stop(): the state is inactive at once, the stop event is
\* queued
RecorderStop(st, r) ==
    [st EXCEPT !.recorder[r] = "inactive", !.stopQueued[r] = TRUE]

\* mutant: mediaRecorder.stop() without the test of mediaRecorder.state
stopRecording_Unchecked(st, tr, cl) ==
    LET a == IF cl.mediaRecorder # 0
             THEN RecorderStop(st, cl.mediaRecorder)
             ELSE st
        b == [a EXCEPT !.isRecording = FALSE]
    IN  IF cl.stream # 0
        THEN [StopTracks(b, tr, cl.stream) EXCEPT !.stream = 0]
        ELSE b

\* stopRecording of the render cl
stopRecording(st, tr, cl) ==
    LET a == IF cl.mediaRecorder # 0
                /\ st.recorder[cl.mediaRecorder] = "recording"
             THEN RecorderStop(st, cl.mediaRecorder)
             ELSE st
        b == [a EXCEPT !.isRecording = FALSE]
    IN  IF cl.stream # 0
        THEN [StopTracks(b, tr, cl.stream) EXCEPT !.stream = 0]
        ELSE b

\* the cleanup of the effect on [stream], run when a render commits a stream
\* other than the one of the previous render prev
StreamCleanupEffect(prev, st, tr) ==
    IF prev.stream # 0 /\ prev.stream # st.stream
    THEN StopTracks(st, tr, prev.stream)
    ELSE st

\* the effect on [isRecording]: a new interval, with the stopRecording of the
\* committing render, when isRecording turns true; no interval when false
TimerEffect(st) ==
    IF st.isRecording
    THEN IF isRecording THEN timerClosure
         ELSE [isRecording |-> TRUE, mediaRecorder |-> st.mediaRecorder,
               stream |-> st.stream]
    ELSE NoClosure

\* the render that follows a task: the state cells take the values st
Commit(st) ==
    /\ isRecording' = st.isRecording
    /\ mediaRecorder' = st.mediaRecorder
    /\ recordedChunks' = st.recordedChunks
    /\ recordingUrl' = st.recordingUrl
    /\ uploadStatus' = st.uploadStatus
    /\ recordingTime' = st.recordingTime
    /\ stream' = st.stream
    /\ error' = st.error
    /\ recorder' = st.recorder
    /\ ended' = st.ended
    /\ stopQueued' = st.stopQueued
    /\ stopCalls' = st.stopCalls
    /\ onstopRuns' = st.onstopRuns
    /\ mimeType' = st.mimeType
    /\ delivered' = st.delivered
    /\ chunks' = st.chunks
    /\ blobs' = st.blobs
    /\ timerClosure' = TimerEffect(st)

\* the five resets at the head of startRecording
ResetState(st) ==
    [st EXCEPT !.recordedChunks = 0, !.recordingUrl = 0, !.recordingTime = 0,
               !.uploadStatus = "", !.error = ""]

\* the catch block of startRecording, in the render cl
Catch(st, tr, cl, reason) ==
    LET a == [st EXCEPT !.error = reason]
    IN  IF cl.stream # 0
        THEN [StopTracks(a, tr, cl.stream) EXCEPT !.stream = 0]
        ELSE a

\* mutant: the support check always passes
DisplaySupported_Unchecked == TRUE

\* !navigator.mediaDevices || !navigator.mediaDevices.getDisplayMedia
DisplaySupported == hasGetDisplayMedia

\* startRecording up to its first await
StartRecording(s, cl) ==
    LET r == ResetState(Cur)
    IN  IF ~DisplaySupported
        THEN /\ Commit(StreamCleanupEffect(Cur,
                           Catch(r, tracks, cl, "unsupported"), tracks))
             /\ pc' = [pc EXCEPT ![s] = "failed"]
        ELSE /\ Commit(r)
             /\ pc' = [pc EXCEPT ![s] = "getDisplayMedia"]

NextSession == CHOOSE s \in Sessions :
                   pc[s] = "unused" /\ \A u \in Sessions : pc[u] = "unused" => s <= u

\* the Start Screen Recording button
ClickStart ==
    /\ ~isRecording /\ recordingUrl = 0
    /\ \E u \in Sessions : pc[u] = "unused"
    /\ LET s == NextSession
       IN  /\ StartRecording(s, CurrentRender)
           /\ closure' = [closure EXCEPT ![s] = CurrentRender]
    /\ UNCHANGED <<platform, elsewhere, tracks>>

\* mutant: clearRecording without setRecordingTime(0)
clearRecording_KeepsTime(st) ==
    [st EXCEPT !.recordingUrl = 0, !.recordedChunks = 0, !.uploadStatus = "",
               !.error = ""]

\* clearRecording
clearRecording(st) ==
    [st EXCEPT !.recordingUrl = 0, !.recordedChunks = 0, !.uploadStatus = "",
               !.error = "", !.recordingTime = 0]

\* the Clear button
ClickClear ==
    /\ recordingUrl # 0 /\ ~isRecording
    /\ Commit(clearRecording(Cur))
    /\ UNCHANGED <<platform, elsewhere, pc, closure, tracks>>

\* the Record Again button: clearRecording, then startRecording of this
\* render 100 ms later
ClickRecordAgain ==
    /\ recordingUrl # 0 /\ ~isRecording
    /\ \E u \in Sessions : pc[u] = "unused"
    /\ Commit(clearRecording(Cur))
    /\ pc' = [pc EXCEPT ![NextSession] = "scheduled"]
    /\ closure' = [closure EXCEPT ![NextSession] = CurrentRender]
    /\ UNCHANGED <<platform, elsewhere, tracks>>

\* the 100 ms timeout of Record Again fires
RecordAgainTimeout(s) ==
    /\ pc[s] = "scheduled"
    /\ StartRecording(s, closure[s])
    /\ UNCHANGED <<platform, elsewhere, closure, tracks>>

\* getDisplayMedia resolves with the video and the audio track the constraints
\* ask for; startRecording goes on to getUserMedia
DisplayResolve(s) ==
    /\ pc[s] = "getDisplayMedia"
    /\ tracks' = [tracks EXCEPT ![s] = DisplayKinds]
    /\ pc' = [pc EXCEPT ![s] = "getUserMedia"]
    /\ UNCHANGED <<platform, elsewhere, isRecording, mediaRecorder, recordedChunks,
                   recordingUrl, uploadStatus, recordingTime, stream, error,
                   timerClosure, closure, ended, stopCalls, recorder,
                   stopQueued, onstopRuns, mimeType, delivered, chunks,
                   blobs>>

\* getDisplayMedia rejects (the user cancels the prompt): the catch block
DisplayReject(s) ==
    /\ pc[s] = "getDisplayMedia"
    /\ Commit(StreamCleanupEffect(Cur,
                  Catch(Cur, tracks, closure[s], "denied"), tracks))
    /\ pc' = [pc EXCEPT ![s] = "failed"]
    /\ UNCHANGED <<platform, elsewhere, closure, tracks>>

\* the nested MIME check of startRecording
MimeSupported ==
    "video/webm;codecs=vp9" \in supportedTypes \/ "video/webm" \in supportedTypes

\* mutant: the generic container whatever the platform supports
ChosenMimeType_Generic == "video/webm"

\* const mimeType = isTypeSupported('video/webm;codecs=vp9') ? ... : ...
ChosenMimeType ==
    IF "video/webm;codecs=vp9" \in supportedTypes
    THEN "video/webm;codecs=vp9"
    ELSE "video/webm"

\* startRecording from setStream(combinedStream) to its end, for the tracks tr
\* of all sessions; outcome is what the MediaRecorder constructor and start do
RecorderSetup(s, tr, outcome, automaticBatching) ==
    LET cl == closure[s]
        a == [Cur EXCEPT !.stream = s,
                         !.mimeType[s] = IF MimeSupported THEN ChosenMimeType
                                         ELSE ""]
        reason == IF ~MimeSupported THEN "nomime"
                  ELSE IF outcome = "ctorThrows" THEN "recorder"
                  ELSE IF outcome = "startThrows" THEN "recorder"
                  ELSE ""
        \* without batching setStream(combinedStream) is rendered before the
        \* catch block runs
        shown == IF automaticBatching THEN a ELSE StreamCleanupEffect(Cur, a, tr)
        before == IF automaticBatching THEN Cur ELSE a
        b == [a EXCEPT !.recorder[s] = "recording", !.mediaRecorder = s,
                       !.isRecording = TRUE]
    IN  IF reason # ""
        THEN /\ Commit(StreamCleanupEffect(before,
                           Catch(shown, tr, cl, reason), tr))
             /\ pc' = [pc EXCEPT ![s] = "failed"]
        ELSE /\ Commit(StreamCleanupEffect(Cur, b, tr))
             /\ pc' = [pc EXCEPT ![s] = "started"]

RecorderOutcomes == {"ok", "ctorThrows", "startThrows"}

\* getUserMedia resolves: the microphone track joins the combined stream
MicResolve(s) ==
    /\ pc[s] = "getUserMedia"
    /\ LET tr == [tracks EXCEPT ![s] = @ \cup {"micAudio"}]
       IN  /\ tracks' = tr
           /\ \E outcome \in RecorderOutcomes, batching \in BOOLEAN :
                  RecorderSetup(s, tr, outcome, batching)
    /\ UNCHANGED <<platform, elsewhere, closure>>

\* mutant: the rejection of getUserMedia reaches the outer catch block
MicReject_Rethrows(s) ==
    /\ pc[s] = "getUserMedia"
    /\ Commit(StreamCleanupEffect(Cur,
                  Catch(Cur, tracks, closure[s], "denied"), tracks))
    /\ pc' = [pc EXCEPT ![s] = "failed"]
    /\ UNCHANGED <<platform, elsewhere, closure, tracks>>

\* getUserMedia rejects: the inner catch only warns, the display stream is
\* the combined stream
MicReject(s) ==
    /\ pc[s] = "getUserMedia"
    /\ \E outcome \in RecorderOutcomes, batching \in BOOLEAN :
           RecorderSetup(s, tracks, outcome, batching)
    /\ UNCHANGED <<platform, elsewhere, closure, tracks>>

\* the Stop Recording button: stopRecording of the latest render
ClickStop ==
    /\ isRecording
    /\ Commit(StreamCleanupEffect(Cur,
                  stopRecording(Cur, tracks, CurrentRender), tracks))
    /\ UNCHANGED <<platform, elsewhere, pc, closure, tracks>>

\* the interval callback: the updater of setRecordingTime
Tick ==
    /\ isRecording
    /\ LET newTime == recordingTime + 1
       IN  IF newTime >= MAX_RECORDING_TIME
           THEN Commit(StreamCleanupEffect(Cur,
                    [stopRecording(Cur, tracks, timerClosure)
                        EXCEPT !.recordingTime = MAX_RECORDING_TIME], tracks))
           ELSE Commit([Cur EXCEPT !.recordingTime = newTime])
    /\ UNCHANGED <<platform, elsewhere, pc, closure, tracks>>

\* mutant: every chunk is pushed, empty or not
ondataavailable_NoSizeTest(st, s, data) ==
    [st EXCEPT !.chunks[s] = Append(@, data)]

\* recorder.ondataavailable of session s
ondataavailable(st, s, data) ==
    IF data.size > 0 THEN [st EXCEPT !.chunks[s] = Append(@, data)] ELSE st

\* the recorder of s fires dataavailable with the data of the given size it
\* has gathered since the last one
FireData(st, s, size) ==
    LET data == [of |-> s, n |-> Len(st.delivered[s]) + 1, size |-> size]
    IN  ondataavailable([st EXCEPT !.delivered[s] = Append(@, data)], s, data)

\* the timeslice of recorder.start(1000) has passed
DataAvailable(s) ==
    /\ recorder[s] = "recording"
    /\ Len(delivered[s]) < MaxChunks
    /\ \E size \in ChunkSizes : Commit(FireData(Cur, s, size))
    /\ UNCHANGED <<platform, elsewhere, pc, closure, tracks>>

\* recorder.onstop of session s
onstop(st, tr, s) ==
    [StopTracks([st EXCEPT !.recordingUrl = s, !.recordedChunks = s,
                           !.blobs[s] = [type |-> st.mimeType[s],
                                         parts |-> st.chunks[s]],
                           !.onstopRuns[s] = @ + 1], tr, s)
        EXCEPT !.stream = 0]

\* the task a recorder stopped by MediaRecorder.stop() queued: dataavailable
\* with the data gathered last, then stop
StopEvent(s) ==
    /\ stopQueued[s]
    /\ \E size \in ChunkSizes :
          Commit(StreamCleanupEffect(Cur,
                     onstop(FireData([Cur EXCEPT !.stopQueued[s] = FALSE],
                                     s, size), tracks, s),
                     tracks))
    /\ UNCHANGED <<platform, elsewhere, pc, closure, tracks>>

\* mutant: onerror shows the error and does not call stopRecording
onerror_NoStop(st, tr, s) == [st EXCEPT !.error = "encoder"]

\* recorder.onerror of session s: stopRecording of the render that ran
\* startRecording
onerror(st, tr, s) ==
    stopRecording([st EXCEPT !.error = "encoder"], tr, closure[s])

\* the encoder fails: the platform inactivates the recorder and fires
\* error, dataavailable and stop in one task
EncoderError(s) ==
    /\ recorder[s] = "recording"
    /\ \E size \in ChunkSizes :
          Commit(StreamCleanupEffect(Cur,
                     onstop(FireData(onerror([Cur EXCEPT !.recorder[s] = "inactive"],
                                             tracks, s), s, size),
                            tracks, s), tracks))
    /\ UNCHANGED <<platform, elsewhere, pc, closure, tracks>>

Live(s, t) == t \in tracks[s] /\ t \notin ended[s]

\* the onended handler startRecording puts on the screen video track
onended(st, tr, s) ==
    IF closure[s].isRecording THEN stopRecording(st, tr, closure[s]) ELSE st

\* the user revokes screen sharing: the tracks of the display stream end and
\* onended runs if startRecording got as far as installing it (it does when
\* it returned normally, and when it failed it did if recorder.start threw)
RevokeShare(s) ==
    /\ Live(s, "screenVideo")
    /\ LET e == [Cur EXCEPT !.ended[s] = @ \cup (tracks[s] \cap DisplayKinds)]
       IN  \E installed \in BOOLEAN :
              /\ pc[s] = "started" => installed
              /\ pc[s] \in {"getDisplayMedia", "getUserMedia"} => ~installed
              /\ IF installed
                 THEN Commit(StreamCleanupEffect(Cur, onended(e, tracks, s),
                                                 tracks))
                 ELSE Commit(e)
    /\ UNCHANGED <<platform, elsewhere, pc, closure, tracks>>

\* all tracks of the recorded stream have ended: the platform inactivates the
\* recorder and fires dataavailable and stop
AutoStop(s) ==
    /\ recorder[s] = "recording"
    /\ \A t \in tracks[s] : ~Live(s, t)
    /\ \E size \in ChunkSizes :
          Commit(StreamCleanupEffect(Cur,
                     onstop(FireData([Cur EXCEPT !.recorder[s] = "inactive"],
                                     s, size), tracks, s),
                     tracks))
    /\ UNCHANGED <<platform, elsewhere, pc, closure, tracks>>

\* the close button of the error alert
DismissError ==
    /\ error # ""
    /\ Commit([Cur EXCEPT !.error = ""])
    /\ UNCHANGED <<platform, elsewhere, pc, closure, tracks>>

Next ==
    \/ \E s \in Sessions : DisplayResolve(s)
    \/ \E s \in Sessions : DisplayReject(s)
    \/ \E s \in Sessions : MicReject(s)
    \/ \E s \in Sessions : MicResolve(s)
    \/ \E s \in Sessions : RevokeShare(s)
    \/ \E s \in Sessions : AutoStop(s)
    \/ \E s \in Sessions : EncoderError(s)
    \/ \E s \in Sessions : StopEvent(s)
    \/ \E s \in Sessions : RecordAgainTimeout(s)
    \/ Tick
    \/ ClickStop
    \/ ClickClear
    \/ ClickRecordAgain
    \/ ClickStart
    \/ DismissError

Spec == Init /\ [][Next]_vars

\* the life cycle with the data the recorder delivers every second while it
\* records; the interval that counts the elapsed seconds stands still
EncoderNext ==
    \/ \E s \in Sessions : DisplayResolve(s)
    \/ \E s \in Sessions : DisplayReject(s)
    \/ \E s \in Sessions : MicReject(s)
    \/ \E s \in Sessions : MicResolve(s)
    \/ \E s \in Sessions : DataAvailable(s)
    \/ \E s \in Sessions : RevokeShare(s)
    \/ \E s \in Sessions : AutoStop(s)
    \/ \E s \in Sessions : EncoderError(s)
    \/ \E s \in Sessions : StopEvent(s)
    \/ \E s \in Sessions : RecordAgainTimeout(s)
    \/ ClickStop
    \/ ClickClear
    \/ ClickRecordAgain
    \/ ClickStart
    \/ DismissError

EncoderSpec == Init /\ [][EncoderNext]_vars

(***************************************************************************)
(* The client after a recording: handleUpload and RecordingsList.          *)
(***************************************************************************)

\* a recording of session 1 with the microphone, stopped by the Stop button
\* before the first tick and finalized: the result section is displayed
Recorded ==
    /\ hasGetDisplayMedia = TRUE
    /\ supportedTypes = MimeTypes
    /\ isRecording = FALSE
    /\ mediaRecorder = 1
    /\ recordedChunks = 1
    /\ recordingUrl = 1
    /\ uploadStatus = ""
    /\ recordingTime = 0
    /\ stream = 0
    /\ error = ""
    /\ timerClosure = NoClosure
    /\ pc = [s \in Sessions |-> IF s = 1 THEN "started" ELSE "unused"]
    /\ closure = [s \in Sessions |-> NoClosure]
    /\ tracks = [s \in Sessions |-> IF s = 1 THEN TrackKinds ELSE {}]
    /\ ended = [s \in Sessions |-> IF s = 1 THEN TrackKinds ELSE {}]
    /\ stopCalls = [s \in Sessions |->
                       [t \in TrackKinds |-> IF s = 1 THEN MaxStopCalls ELSE 0]]
    /\ recorder = [s \in Sessions |-> IF s = 1 THEN "inactive" ELSE "none"]
    /\ stopQueued = [s \in Sessions |-> FALSE]
    /\ onstopRuns = [s \in Sessions |-> IF s = 1 THEN 1 ELSE 0]
    /\ mimeType = [s \in Sessions |->
                      IF s = 1 THEN "video/webm;codecs=vp9" ELSE ""]
    /\ delivered = [s \in Sessions |->
                       IF s = 1 THEN <<[of |-> 1, n |-> 1, size |-> 1]>>
                       ELSE <<>>]
    /\ chunks = delivered
    /\ blobs = [s \in Sessions |->
                   IF s = 1 THEN [type |-> mimeType[1], parts |-> chunks[1]]
                   ELSE NoBlob]

ClientInit == Recorded /\ UploadInit /\ ListInit /\ ServerInit

recording == <<platform, pc, closure, tracks>>

NextUpload == CHOOSE u \in Uploads :
                  upPc[u] = "unused"
                  /\ \A v \in Uploads : upPc[v] = "unused" => u <= v

NextListRequest == CHOOSE q \in ListRequests :
                       lq[q] = "unused"
                       /\ \A r \in ListRequests : lq[r] = "unused" => q <= r

\* handleUpload gets past its test of recordedChunks.length and posts
PostsBlob(st) == st.recordedChunks # 0

\* mutant: handleUpload without the test of recordedChunks.length
handleUpload_NoTest(st) == [st EXCEPT !.uploadStatus = "uploading"]

\* handleUpload up to its await
handleUpload(st) ==
    IF PostsBlob(st) THEN [st EXCEPT !.uploadStatus = "uploading"] ELSE st

\* the Upload button
ClickUpload ==
    /\ recordingUrl # 0 /\ ~isRecording
    /\ uploadStatus # "uploading"
    /\ \E u \in Uploads : upPc[u] = "unused"
    /\ Commit(handleUpload(Cur))
    /\ IF PostsBlob(Cur)
       THEN /\ upPc' = [upPc EXCEPT ![NextUpload] = "waiting"]
            /\ upBlob' = [upBlob EXCEPT ![NextUpload] = recordedChunks]
       ELSE UNCHANGED <<upPc, upBlob>>
    /\ UNCHANGED <<recording, serverVars, listVars, refreshKey, upAnswer, upTimer>>

\* the service answers the POST of upload u
ServiceAnswers(u) ==
    /\ upPc[u] = "waiting" /\ upAnswer[u] = 0
    /\ \E status \in PostStatuses : upAnswer' = [upAnswer EXCEPT ![u] = status]
    /\ UNCHANGED <<recording, serverVars, listVars, refreshKey, upPc, upBlob, upTimer,
                   isRecording, mediaRecorder, recordedChunks, recordingUrl,
                   uploadStatus, recordingTime, stream, error, timerClosure,
                   ended, stopCalls, recorder, stopQueued, onstopRuns,
                   mimeType, delivered, chunks, blobs>>

\* fetchRecordings up to its await, as invocation q
fetchRecordings(q) ==
    /\ loading' = TRUE
    /\ listError' = ""
    /\ lq' = [lq EXCEPT ![q] = "inflight"]
    /\ UNCHANGED <<recordings, lqBody>>

\* mutant: the catch block of handleUpload discards the recording
handleUploadCatch_Discards(st) ==
    [st EXCEPT !.uploadStatus = "error", !.recordedChunks = 0,
               !.recordingUrl = 0]

\* mutant: the catch block of handleUpload only logs the error
handleUploadCatch_Silent(st) == st

\* the catch block of handleUpload
handleUploadCatch(st) == [st EXCEPT !.uploadStatus = "error"]

\* the response of upload u arrives: axios resolves on a 2xx status and
\* rejects on any other; the new refreshKey makes RecordingsList fetch
UploadResponse(u) ==
    /\ upPc[u] = "waiting" /\ upAnswer[u] # 0
    /\ IF upAnswer[u] >= 200 /\ upAnswer[u] < 300
       THEN /\ Commit([Cur EXCEPT !.uploadStatus = "success"])
            /\ refreshKey' = refreshKey + 1
            /\ upPc' = [upPc EXCEPT ![u] = "resolved"]
            /\ fetchRecordings(NextListRequest)
       ELSE /\ Commit(handleUploadCatch(Cur))
            /\ upPc' = [upPc EXCEPT ![u] = "rejected"]
            /\ UNCHANGED <<refreshKey, listVars>>
    /\ upTimer' = [upTimer EXCEPT ![u] = TRUE]
    /\ UNCHANGED <<recording, serverVars, upBlob, upAnswer>>

\* the request of upload u fails in the network or meets the 30 s timeout
UploadTimeout(u) ==
    /\ upPc[u] = "waiting"
    /\ Commit(handleUploadCatch(Cur))
    /\ upPc' = [upPc EXCEPT ![u] = "rejected"]
    /\ upTimer' = [upTimer EXCEPT ![u] = TRUE]
    /\ UNCHANGED <<recording, serverVars, listVars, refreshKey, upBlob, upAnswer>>

\* the delayed setUploadStatus('') of upload u, 3 s after success and 5 s
\* after error
StatusReset(u) ==
    /\ upTimer[u]
    /\ Commit([Cur EXCEPT !.uploadStatus = ""])
    /\ upTimer' = [upTimer EXCEPT ![u] = FALSE]
    /\ UNCHANGED <<recording, serverVars, listVars, refreshKey, upPc, upBlob, upAnswer>>

App == <<isRecording, mediaRecorder, recordedChunks, recordingUrl,
         uploadStatus, recordingTime, stream, error, timerClosure, ended,
         stopCalls, recorder, stopQueued, onstopRuns, mimeType, delivered,
         chunks, blobs>>

\* Array.isArray(response.data) ? response.data : []
Shown(body) == IF body.isArray THEN body.rows ELSE <<>>

\* mutant: the response is appended to the displayed recordings
ListResponse_Appends(q) ==
    /\ lq[q] = "inflight"
    /\ \E body \in ListBodies :
          /\ recordings' = recordings \o Shown(body)
          /\ lqBody' = [lqBody EXCEPT ![q] = body]
    /\ loading' = FALSE
    /\ lq' = [lq EXCEPT ![q] = "done"]
    /\ UNCHANGED <<recording, serverVars, App, uploadVars, listError>>

\* the GET of fetchRecordings q is answered with body
ListResponse(q) ==
    /\ lq[q] = "inflight"
    /\ \E body \in ListBodies :
          /\ recordings' = Shown(body)
          /\ lqBody' = [lqBody EXCEPT ![q] = body]
    /\ loading' = FALSE
    /\ lq' = [lq EXCEPT ![q] = "done"]
    /\ UNCHANGED <<recording, serverVars, App, uploadVars, listError>>

ListFailures == {"refused", "status", "connection"}

\* the GET of fetchRecordings q fails: the catch block
ListFails(q) ==
    /\ lq[q] = "inflight"
    /\ \E cause \in ListFailures : listError' = cause
    /\ loading' = FALSE
    /\ lq' = [lq EXCEPT ![q] = "failed"]
    /\ UNCHANGED <<recording, serverVars, App, uploadVars, recordings, lqBody>>

ClientNext ==
    \/ \E u \in Uploads : ServiceAnswers(u)
    \/ \E u \in Uploads : UploadResponse(u)
    \/ \E u \in Uploads : UploadTimeout(u)
    \/ \E u \in Uploads : StatusReset(u)
    \/ \E q \in ListRequests : ListResponse(q)
    \/ \E q \in ListRequests : ListFails(q)
    \/ ClickUpload
    \/ ClickClear

ClientSpec == ClientInit /\ [][ClientNext]_vars

\* every request is answered, fails or times out, and every timer fires
ClientFairSpec ==
    /\ ClientSpec
    /\ \A u \in Uploads : WF_vars(UploadResponse(u) \/ UploadTimeout(u))
    /\ \A u \in Uploads : WF_vars(StatusReset(u))
    /\ \A q \in ListRequests : WF_vars(ListResponse(q) \/ ListFails(q))

(***************************************************************************)
(* The service: Express handlers, uploads directory, recordings table.     *)
(***************************************************************************)

\* the rows the database setup script inserts, in the second before the
\* server starts; it stores no file for them
SampleRows ==
    << [id |-> 1, filename |-> FileName("sample-recording-1", 0, 0),
        size |-> 1048576, created_at |-> -1],
       [id |-> 2, filename |-> FileName("sample-recording-2", 0, 0),
        size |-> 2097152, created_at |-> -1],
       [id |-> 3, filename |-> FileName("demo-screen-capture", 0, 0),
        size |-> 5242880, created_at |-> -1] >>

\* the server started on a database that is empty or was set up with the
\* sample rows
ServerStart ==
    /\ now = 0
    /\ files = [n \in {} |-> <<>>]
    /\ \E seeded \in BOOLEAN :
          /\ rows = IF seeded THEN SampleRows ELSE <<>>
          /\ nextId = IF seeded THEN Len(SampleRows) + 1 ELSE 1
    /\ pending = <<>>
    /\ posts = 0
    /\ resp = NoResponse
    /\ sent = [i \in {} |-> <<>>]

\* the client as it is when constructed, left alone by the service
ClientIdle ==
    /\ hasGetDisplayMedia = TRUE
    /\ supportedTypes = MimeTypes
    /\ isRecording = FALSE
    /\ mediaRecorder = 0
    /\ recordedChunks = 0
    /\ recordingUrl = 0
    /\ uploadStatus = ""
    /\ recordingTime = 0
    /\ stream = 0
    /\ error = ""
    /\ timerClosure = NoClosure
    /\ pc = [s \in Sessions |-> "unused"]
    /\ closure = [s \in Sessions |-> NoClosure]
    /\ tracks = [s \in Sessions |-> {}]
    /\ ended = [s \in Sessions |-> {}]
    /\ stopCalls = [s \in Sessions |-> [t \in TrackKinds |-> 0]]
    /\ recorder = [s \in Sessions |-> "none"]
    /\ stopQueued = [s \in Sessions |-> FALSE]
    /\ onstopRuns = [s \in Sessions |-> 0]
    /\ EncoderInit
    /\ UploadInit
    /\ ListInit

ServerSpecInit == ClientIdle /\ ServerStart

client == <<recording, App, uploadVars, listVars>>

Respond(kind, status, id, body, listed) ==
    [kind |-> kind, status |-> status, id |-> id, body |-> body,
     rows |-> listed]

\* the clock advances
ClockTick ==
    /\ now < MaxNow
    /\ now' = now + 1
    /\ UNCHANGED <<client, files, rows, nextId, pending, posts, resp, sent>>

\* CURRENT_TIMESTAMP at tick t
SecondOf(t) == t \div TicksPerSecond

\* fs.createWriteStream(path): the file name holds content afterwards,
\* whether it existed or not
WriteFile(dir, name, content) ==
    [n \in DOMAIN dir \cup {name} |-> IF n = name THEN content ELSE dir[n]]

\* POST /api/recordings with a file in field 'video': multer stores it under
\* the name its filename callback returns and sets req.file
PostStore(content, r) ==
    /\ posts < MaxPosts
    /\ posts' = posts + 1
    /\ LET name == FileName("video", now, r)
       IN  /\ files' = WriteFile(files, name, content)
           /\ pending' = Append(pending,
                             [filename |-> name, size |-> Len(content),
                              content |-> content])
    /\ UNCHANGED <<client, now, rows, nextId, resp, sent>>

\* POST /api/recordings with a file over the 100 MB limit: multer removes
\* what it wrote and Express answers with its error handler
PostTooLarge ==
    /\ resp' = Respond("post", 500, 0, <<>>, <<>>)
    /\ UNCHANGED <<client, now, files, rows, nextId, pending, posts, sent>>

\* mutant: the handler reads req.file without testing it, and the TypeError
\* reaches its catch block
PostNoFile_Unchecked ==
    /\ resp' = Respond("post", 500, 0, <<>>, <<>>)
    /\ UNCHANGED <<client, now, files, rows, nextId, pending, posts, sent>>

\* POST /api/recordings without a file in field 'video'
PostNoFile ==
    /\ resp' = Respond("post", 400, 0, <<>>, <<>>)
    /\ UNCHANGED <<client, now, files, rows, nextId, pending, posts, sent>>

Remove(seq, i) == [k \in 1..(Len(seq) - 1) |-> IF k < i THEN seq[k] ELSE seq[k + 1]]

\* the handler of POST /api/recordings for the stored file pending[i]: the
\* INSERT succeeds (ok) or throws
PostInsert(i, ok) ==
    /\ i \in 1..Len(pending)
    /\ pending' = Remove(pending, i)
    /\ IF ok
       THEN /\ rows' = Append(rows, [id |-> nextId,
                                     filename |-> pending[i].filename,
                                     size |-> pending[i].size,
                                     created_at |-> SecondOf(now)])
            /\ nextId' = nextId + 1
            /\ sent' = [j \in DOMAIN sent \cup {nextId} |->
                           IF j = nextId THEN pending[i].content ELSE sent[j]]
            /\ resp' = Respond("post", 201, nextId, <<>>, <<>>)
       ELSE /\ resp' = Respond("post", 500, 0, <<>>, <<>>)
            /\ UNCHANGED <<rows, nextId, sent>>
    /\ UNCHANGED <<client, now, files, posts>>

\* the orders in which the rows of table at the indices in left may follow
\* one another under ORDER BY created_at DESC: rows of equal created_at come
\* in any order
RECURSIVE Orders(_, _)
Orders(table, left) ==
    IF left = {} THEN {<<>>}
    ELSE UNION {{<<table[k]>> \o rest : rest \in Orders(table, left \ {k})} :
                   k \in {j \in left : \A i \in left :
                              table[j].created_at >= table[i].created_at}}

\* what SELECT * FROM recordings ORDER BY created_at DESC may return
OrderedByCreatedAtDesc(table) == Orders(table, 1..Len(table))

\* GET /api/recordings: the SELECT succeeds (ok) or throws
GetList(ok) ==
    /\ IF ok
       THEN \E listed \in OrderedByCreatedAtDesc(rows) :
                resp' = Respond("list", 200, 0, <<>>, listed)
       ELSE resp' = Respond("list", 500, 0, <<>>, <<>>)
    /\ UNCHANGED <<client, now, files, rows, nextId, pending, posts, sent>>

\* the ids a GET /api/recordings/:id may ask for
RequestIds == 0..(Len(SampleRows) + MaxPosts + 1)

\* the rows SELECT * FROM recordings WHERE id = ? returns
RowsWithId(id) == {k \in 1..Len(rows) : rows[k].id = id}

\* mutant: the handler streams without testing fs.existsSync
StreamRecording_Unchecked(id) ==
    IF RowsWithId(id) = {} THEN Respond("get", 404, id, <<>>, <<>>)
    ELSE LET recording0 == rows[CHOOSE k \in RowsWithId(id) :
                                    \A j \in RowsWithId(id) : k <= j]
         IN  Respond("get", 200, id,
                     IF recording0.filename \in DOMAIN files
                     THEN files[recording0.filename] ELSE <<>>, <<>>)

\* the handler of GET /api/recordings/:id when the SELECT succeeds
StreamRecording(id) ==
    IF RowsWithId(id) = {} THEN Respond("get", 404, id, <<>>, <<>>)
    ELSE LET recording0 == rows[CHOOSE k \in RowsWithId(id) :
                                    \A j \in RowsWithId(id) : k <= j]
         IN  IF recording0.filename \notin DOMAIN files
             THEN Respond("get", 404, id, <<>>, <<>>)
             ELSE Respond("get", 200, id, files[recording0.filename], <<>>)

\* GET /api/recordings/:id: the SELECT succeeds (ok) or throws
GetRecording(id, ok) ==
    /\ resp' = IF ok THEN StreamRecording(id)
               ELSE Respond("get", 500, id, <<>>, <<>>)
    /\ UNCHANGED <<client, now, files, rows, nextId, pending, posts, sent>>

ServerNext ==
    \/ ClockTick
    \/ \E content \in Payloads, r \in 1..MaxRand : PostStore(content, r)
    \/ PostTooLarge
    \/ PostNoFile
    \/ \E i \in 1..MaxPosts, ok \in BOOLEAN : PostInsert(i, ok)
    \/ \E ok \in BOOLEAN : GetList(ok)
    \/ \E id \in RequestIds, ok \in BOOLEAN : GetRecording(id, ok)

ServerSpec == ServerSpecInit /\ [][ServerNext]_vars

Acquiring == {"getDisplayMedia", "getUserMedia"}

\* startRecording is invoked for s in this step
Invoked(s) ==
    \/ pc[s] = "unused" /\ pc'[s] \notin {"unused", "scheduled"}
    \/ pc[s] = "scheduled" /\ pc'[s] # "scheduled"

\* the session s has been finalized: its recorder's onstop has run
Finalized(s) == onstopRuns[s] > 0

\* the stop calls made on the tracks of s
StopCallsOn(s) ==
    stopCalls[s]["screenVideo"] + stopCalls[s]["screenAudio"]
        + stopCalls[s]["micAudio"]

\* the errors startRecording ends in Failed with
StartFailures == {"unsupported", "denied", "nomime", "recorder"}

C3_FinalizedTracksStopped ==
    \A s \in Sessions :
        Finalized(s) =>
            \A t \in tracks[s] : stopCalls[s][t] >= 1 /\ ~Live(s, t)

\* a session finalized by its recorder stopping by itself after the screen
\* share was revoked, stopRecording not having run
C3_Witness ==
    \E s \in Sessions :
        /\ Finalized(s) /\ isRecording /\ mediaRecorder = s
        /\ tracks[s] = DisplayKinds

(***************************************************************************)
(* C4: a startRecording that failed after it obtained the screen stream    *)
(* has stopped every track it acquired.                                    *)
(***************************************************************************)
C4_FailedTracksStopped ==
    \A s \in Sessions :
        pc[s] = "failed" => \A t \in tracks[s] : ~Live(s, t)

(***************************************************************************)
(* C5: when screen sharing is revoked while the session records, the       *)
(* session leaves Recording: isRecording becomes false.                    *)
(***************************************************************************)
C5_RevocationStops ==
    [][\A s \in Sessions :
          (RevokeShare(s) /\ isRecording /\ recorder[s] = "recording")
              => ~isRecording']_vars

(***************************************************************************)
(* C6: at most one session is acquiring devices and at most one recorder   *)
(* is recording at any time.                                               *)
(***************************************************************************)
C6_OneActiveSession ==
    /\ Cardinality({s \in Sessions : pc[s] \in Acquiring}) <= 1
    /\ Cardinality({s \in Sessions : recorder[s] = "recording"}) <= 1

(***************************************************************************)
(* C7: an artifact is present only in Finalized: never while the session   *)
(* is recording, acquiring or failed to start.                             *)
(***************************************************************************)
C7_ArtifactOnlyFinalized ==
    (recordingUrl # 0 \/ recordedChunks # 0) =>
        /\ ~isRecording
        /\ error \notin StartFailures
        /\ \A s \in Sessions : pc[s] \notin Acquiring

(***************************************************************************)
(* C8: when getUserMedia rejects, startRecording goes on with the screen   *)
(* tracks alone: it starts the recorder and leaves the error as it was,    *)
(* unless the encoding is unsupported or the recorder throws.              *)
(***************************************************************************)
C8_MicFailureTolerated ==
    [][\A s \in Sessions :
          MicReject(s) =>
              \/ /\ pc'[s] = "started"
                 /\ recorder'[s] = "recording"
                 /\ isRecording'
                 /\ tracks'[s] = DisplayKinds
                 /\ error' = error
              \/ /\ pc'[s] = "failed"
                 /\ error' = IF MimeSupported THEN "recorder" ELSE "nomime"]_vars

\* a session recording the screen tracks alone
C8_Witness ==
    \E s \in Sessions :
        /\ pc[s] = "started" /\ recorder[s] = "recording" /\ isRecording
        /\ tracks[s] = DisplayKinds

(***************************************************************************)
(* C9: startRecording resets elapsed time, artifact, upload status and     *)
(* error, and while that invocation is still acquiring devices they stay   *)
(* reset.                                                                  *)
(***************************************************************************)
C9_ResetHolds ==
    [][\A s \in Sessions :
          /\ (Invoked(s) /\ pc'[s] \in Acquiring) =>
                 /\ recordingTime' = 0 /\ recordingUrl' = 0
                 /\ recordedChunks' = 0 /\ uploadStatus' = "" /\ error' = ""
          /\ (pc[s] \in Acquiring /\ pc'[s] \in Acquiring
              /\ \A u \in Sessions : ~Invoked(u)
              /\ recordingTime = 0 /\ recordingUrl = 0 /\ recordedChunks = 0
              /\ uploadStatus = "" /\ error = "") =>
                 /\ recordingTime' = 0 /\ recordingUrl' = 0
                 /\ recordedChunks' = 0 /\ uploadStatus' = "" /\ error' = ""]_vars

(***************************************************************************)
(* C10: on a platform without getDisplayMedia every startRecording fails   *)
(* with the reason displayed; no track is acquired, no recorder is created *)
(* and isRecording is never set.                                           *)
(***************************************************************************)
C10_UnsupportedPlatformFails ==
    /\ [](~hasGetDisplayMedia =>
            /\ ~isRecording
            /\ \A s \in Sessions : tracks[s] = {} /\ recorder[s] = "none")
    /\ [][\A s \in Sessions :
             (Invoked(s) /\ ~hasGetDisplayMedia) =>
                 pc'[s] = "failed" /\ error' = "unsupported"]_vars

\* a startRecording that failed on a platform without getDisplayMedia
C10_Witness ==
    /\ ~hasGetDisplayMedia
    /\ error = "unsupported"
    /\ \E s \in Sessions : pc[s] = "failed"

(***************************************************************************)
(* C11: a recording stopped by the Stop button or by the tick at 180       *)
(* produces exactly one artifact: stop() is called on a recorder that is   *)
(* recording and queues one stop event, the recorder's onstop runs once    *)
(* and leaves the blob of that session in recordedChunks and recordingUrl. *)
(***************************************************************************)
C11_OneArtifact ==
    /\ [](\A s \in Sessions :
            /\ onstopRuns[s] <= 1
            /\ stopQueued[s] => recorder[s] = "inactive" /\ onstopRuns[s] = 0)
    /\ [][\A s \in Sessions :
             /\ ((ClickStop \/ Tick) /\ recorder[s] = "recording"
                 /\ recorder'[s] = "inactive") => stopQueued'[s]
             /\ StopEvent(s) =>
                    /\ onstopRuns'[s] = 1
                    /\ recordedChunks' = s /\ recordingUrl' = s]_vars

\* a recording stopped by the tick at 180 and finalized
C11_Witness ==
    \E s \in Sessions :
        /\ onstopRuns[s] = 1 /\ ~stopQueued[s] /\ recordedChunks = s
        /\ ~isRecording /\ recordingTime = MAX_RECORDING_TIME

(***************************************************************************)
(* C12: a session that fails produces no artifact: a startRecording that   *)
(* failed never has its onstop run, and an encoder error leaves no blob    *)
(* of the failing session in recordedChunks or recordingUrl.               *)
(***************************************************************************)
C12_FailedNoArtifact ==
    /\ [](\A s \in Sessions :
            pc[s] = "failed" =>
                onstopRuns[s] = 0 /\ recordingUrl # s /\ recordedChunks # s)
    /\ [][\A s \in Sessions :
             EncoderError(s) => recordingUrl' # s /\ recordedChunks' # s]_vars

(***************************************************************************)
(* C13: an encoder error while recording ends the recording: the error is  *)
(* displayed, the recorder is inactive and isRecording is false, whatever  *)
(* values the stopRecording that onerror captured closes over.             *)
(***************************************************************************)
C13_EncoderErrorStops ==
    [][\A s \in Sessions :
          EncoderError(s) =>
              /\ error' = "encoder"
              /\ recorder'[s] = "inactive" /\ ~stopQueued'[s]
              /\ ~isRecording']_vars

\* an encoder error ended a recording whose onerror captured a render that
\* held the recorder of an earlier session
C13_Witness ==
    \E s \in Sessions :
        /\ error = "encoder" /\ ~isRecording /\ recorder[s] = "inactive"
        /\ onstopRuns[s] = 1 /\ closure[s].mediaRecorder \notin {0, s}

(***************************************************************************)
(* C14: elapsed time increases only while a recorder is recording, and     *)
(* isRecording turns true, which starts the interval, only with elapsed    *)
(* time 0.                                                                 *)
(***************************************************************************)
C14_TimerOnlyWhileRecording ==
    /\ [][recordingTime' > recordingTime =>
             \E s \in Sessions : recorder[s] = "recording"]_vars
    /\ [][(~isRecording /\ isRecording') => recordingTime' = 0]_vars

\* upload u fails in this step
UploadFailure(u) ==
    (UploadResponse(u) \/ UploadTimeout(u)) /\ upPc'[u] = "rejected"

(***************************************************************************)
(* C15: an upload that fails leaves the artifact as it was: the failing    *)
(* step changes neither recordedChunks nor recordingUrl, the artifact      *)
(* still displayed after a failed upload is the blob that upload sent,     *)
(* and the Upload button is enabled again.                                 *)
(***************************************************************************)
C15_FailedUploadKeepsArtifact ==
    /\ [][\A u \in Uploads :
             UploadFailure(u) =>
                 /\ recordedChunks' = recordedChunks
                 /\ recordingUrl' = recordingUrl
                 /\ uploadStatus' # "uploading"]_vars
    /\ [](\A u \in Uploads :
            (upPc[u] = "rejected" /\ recordedChunks # 0) =>
                recordedChunks = upBlob[u] /\ recordingUrl = upBlob[u])

\* an upload answered with status 500 has failed and the artifact is there
C15_Witness ==
    \E u \in Uploads :
        /\ upPc[u] = "rejected" /\ upAnswer[u] = 500
        /\ uploadStatus = "error"
        /\ recordedChunks # 0 /\ recordedChunks = upBlob[u]

(***************************************************************************)
(* C16: every upload settles and the status leaves 'uploading': an upload  *)
(* answered with 201 sets the status to 'success', an upload answered with *)
(* a failure status, or not answered before the timeout, sets it to        *)
(* 'error'.                                                                *)
(***************************************************************************)
C16_UploadSettles ==
    /\ [][\A u \in Uploads :
             /\ (UploadResponse(u) /\ upAnswer[u] = 201) =>
                    uploadStatus' = "success" /\ upPc'[u] = "resolved"
             /\ ((UploadResponse(u) /\ upAnswer[u] # 201) \/ UploadTimeout(u)) =>
                    uploadStatus' = "error" /\ upPc'[u] = "rejected"]_vars
    /\ \A u \in Uploads :
           (upPc[u] = "waiting") ~> (upPc[u] \in {"resolved", "rejected"})
    /\ (uploadStatus = "uploading") ~> (uploadStatus # "uploading")

\* one upload has succeeded and one has timed out without an answer
C16_Witness ==
    \E u, v \in Uploads :
        /\ upPc[u] = "resolved" /\ upAnswer[u] = 201
        /\ upPc[v] = "rejected" /\ upAnswer[v] = 0

\* q is the latest fetchRecordings and all invocations have completed
LatestDone(q) ==
    /\ lq[q] = "done"
    /\ \A r \in ListRequests :
           (r < q => lq[r] = "done") /\ (r > q => lq[r] = "unused")

(***************************************************************************)
(* C17: when list requests have been in flight together and all have       *)
(* completed, the displayed recordings are the response of the latest      *)
(* request.                                                                *)
(***************************************************************************)
C17_LatestRequestDisplayed ==
    \A q \in ListRequests :
        (q > 1 /\ LatestDone(q)) => recordings = Shown(lqBody[q])

(***************************************************************************)
(* C17, amended: every response of a list request replaces the displayed   *)
(* recordings when it arrives and nothing else changes them, so after two  *)
(* concurrent requests have completed the displayed recordings are the     *)
(* response that arrived last.                                             *)
(***************************************************************************)
C17_LastResponseDisplayed ==
    /\ [][\A q \in ListRequests :
             ListResponse(q) => recordings' = Shown(lqBody'[q])]_vars
    /\ [][recordings' # recordings =>
             \E q \in ListRequests : ListResponse(q)]_vars

\* two requests have completed and the response of the earlier one, which
\* arrived last, is displayed
C17_Witness ==
    /\ LatestDone(2)
    /\ recordings = Shown(lqBody[1])
    /\ Shown(lqBody[1]) # Shown(lqBody[2])

\* the row of id has no file in the uploads directory
FileMissing(id) ==
    \E k \in RowsWithId(id) : rows[k].filename \notin DOMAIN files

(***************************************************************************)
(* C18: for every POST answered 201 with id, the list holds a row with     *)
(* that id whose size is the length of the uploaded content, and GET of    *)
(* that id answers with exactly the uploaded content, whatever uploads     *)
(* followed.                                                               *)
(***************************************************************************)
C18_RoundTrip ==
    \A id \in DOMAIN sent :
        /\ \A listed \in OrderedByCreatedAtDesc(rows) :
               \E k \in 1..Len(listed) :
                   listed[k].id = id /\ listed[k].size = Len(sent[id])
        /\ StreamRecording(id) = Respond("get", 200, id, sent[id], <<>>)

(***************************************************************************)
(* C19: a POST whose insert succeeds is answered 201 with a positive       *)
(* integer recordingId, and a list request after it returns the row of     *)
(* the newest upload first.                                                *)
(***************************************************************************)
C19_NewestFirst ==
    /\ [][(\E i \in 1..MaxPosts : PostInsert(i, TRUE)) =>
             /\ resp'.status = 201
             /\ resp'.id \in Nat /\ resp'.id > 0]_vars
    /\ [][(GetList(TRUE) /\ DOMAIN sent # {}) =>
             /\ resp'.status = 200
             /\ resp'.rows[1].id = nextId - 1]_vars

(***************************************************************************)
(* C20: GET /api/recordings/:id for an id that has no row, or whose row    *)
(* has no file on disk, answers 404 with no content when the lookup        *)
(* returns, and 500 with no content when the lookup throws.                *)
(***************************************************************************)
C20_NotFound ==
    [][\A id \in RequestIds :
          \A ok \in BOOLEAN :
              (GetRecording(id, ok) /\ (RowsWithId(id) = {} \/ FileMissing(id)))
                  => /\ resp'.status = IF ok THEN 404 ELSE 500
                     /\ resp'.body = <<>>]_vars

\* a GET was answered 404 for a row whose file is missing, after a GET of
\* an uploaded recording could have been answered with its content
C20_Witness ==
    /\ resp.kind = "get" /\ resp.status = 404
    /\ RowsWithId(resp.id) # {} /\ FileMissing(resp.id)
    /\ DOMAIN sent # {}

(***************************************************************************)
(* C21: no two rows of the recordings table share a filename, and a POST   *)
(* never writes over a file that is already in the uploads directory.      *)
(***************************************************************************)
C21_UniqueFilenames ==
    /\ [](\A i, j \in 1..Len(rows) :
            i # j => rows[i].filename # rows[j].filename)
    /\ [][\A content \in Payloads, r \in 1..MaxRand :
             PostStore(content, r) =>
                 \A n \in DOMAIN files : files'[n] = files[n]]_vars

(***************************************************************************)
(* C22: a POST without a file is answered 400 and leaves the table as it   *)
(* was; a POST whose INSERT throws is answered 500 and leaves the table,   *)
(* and so what a list request returns, as it was.                          *)
(***************************************************************************)
C22_PostErrors ==
    /\ [][PostNoFile =>
             /\ resp'.kind = "post" /\ resp'.status = 400
             /\ rows' = rows /\ nextId' = nextId]_vars
    /\ [][\A i \in 1..MaxPosts :
             PostInsert(i, FALSE) =>
                 /\ resp'.kind = "post" /\ resp'.status = 500
                 /\ rows' = rows
                 /\ OrderedByCreatedAtDesc(rows') = OrderedByCreatedAtDesc(rows)]_vars

\* of two POSTs with a file, the INSERT of one succeeded and the INSERT of
\* the other threw and was answered 500
C22_Witness ==
    /\ resp.kind = "post" /\ resp.status = 500
    /\ posts = MaxPosts /\ pending = <<>>
    /\ Cardinality(DOMAIN sent) = MaxPosts - 1
    /\ Len(rows) = MaxPosts - 1

(***************************************************************************)
(* C23: the format of a recorder is 'video/webm;codecs=vp9' when the       *)
(* platform supports it, else 'video/webm' when the platform supports      *)
(* that, else startRecording fails without constructing a recorder; the    *)
(* blob of a finalized session has the format its recorder was started     *)
(* with.                                                                   *)
(***************************************************************************)
C23_MimeOrder ==
    /\ [](\A s \in Sessions :
            /\ recorder[s] # "none" =>
                   /\ "video/webm;codecs=vp9" \in supportedTypes
                          => mimeType[s] = "video/webm;codecs=vp9"
                   /\ ("video/webm;codecs=vp9" \notin supportedTypes
                       /\ "video/webm" \in supportedTypes)
                          => mimeType[s] = "video/webm"
                   /\ mimeType[s] \in supportedTypes
            /\ (supportedTypes = {} /\ tracks[s] # {}) =>
                   recorder[s] = "none" /\ pc[s] \in Acquiring \cup {"failed"}
            /\ Finalized(s) => blobs[s].type = mimeType[s])
    /\ [][\A s \in Sessions :
             ((MicResolve(s) \/ MicReject(s)) /\ supportedTypes = {}) =>
                 pc'[s] = "failed" /\ error' = "nomime"]_vars

\* a session finalized on a platform that supports the generic container
\* alone
C23_Witness ==
    \E s \in Sessions :
        /\ supportedTypes = {"video/webm"}
        /\ Finalized(s) /\ blobs[s].type = "video/webm"
        /\ recordedChunks = s

\* the dataavailable events of s that carried data, in the order they fired
NonEmptyData(s) == SelectSeq(delivered[s], LAMBDA data : data.size > 0)

(***************************************************************************)
(* C24: the blob of a finalized session consists of the non-empty data     *)
(* its recorder delivered, all of them and in the order they arrived, and  *)
(* of no data of another session.                                          *)
(***************************************************************************)
C24_ChunksInOrder ==
    \A s \in Sessions :
        Finalized(s) =>
            /\ blobs[s].parts = NonEmptyData(s)
            /\ \A k \in 1..Len(blobs[s].parts) : blobs[s].parts[k].of = s

\* two sessions finalized, the blob of one made of the data of a timeslice
\* and the data delivered at the stop, an empty delivery left out of the
\* other
C24_Witness ==
    \E s, u \in Sessions :
        /\ s # u /\ Finalized(s) /\ Finalized(u)
        /\ Len(blobs[s].parts) = MaxChunks + 1
        /\ Len(blobs[u].parts) < Len(delivered[u])
        /\ blobs[u].parts # <<>>

(***************************************************************************)
(* C25: clearRecording, from the Clear or the Record Again button of the   *)
(* result section, leaves no artifact, elapsed time 0, no error, no upload *)
(* status and isRecording false.                                           *)
(***************************************************************************)
C25_ClearReturnsIdle ==
    [][(ClickClear \/ ClickRecordAgain) =>
          /\ recordingUrl' = 0 /\ recordedChunks' = 0
          /\ recordingTime' = 0
          /\ error' = "" /\ uploadStatus' = ""
          /\ ~isRecording']_vars

\* the result of the one session there has been was discarded
C25_Witness ==
    \E s \in Sessions :
        /\ Finalized(s) /\ recordingUrl = 0 /\ recordedChunks = 0
        /\ \A u \in Sessions \ {s} : pc[u] = "unused"
        /\ recordingTime = 0 /\ error = "" /\ ~isRecording

\* the uploads whose request is in flight
InFlight == {u \in Uploads : upPc[u] = "waiting"}

(***************************************************************************)
(* C26: while an upload is in flight uploadStatus is 'uploading', at most  *)
(* one upload is in flight, and the delayed status reset of an upload      *)
(* leaves the status alone while another upload is in flight.              *)
(***************************************************************************)
C26_OneUploadInFlight ==
    /\ [](InFlight # {} => uploadStatus = "uploading")
    /\ [](Cardinality(InFlight) <= 1)
    /\ [][\A u \in Uploads :
             (StatusReset(u) /\ InFlight # {}) =>
                 uploadStatus' = uploadStatus]_vars

(***************************************************************************)
(* C27: isRecording is true exactly when the recorder held in              *)
(* mediaRecorder is in state 'recording'.                                  *)
(***************************************************************************)
C27_FlagAgreesWithEncoder ==
    isRecording <=> (mediaRecorder # 0 /\ recorder[mediaRecorder] = "recording")

(***************************************************************************)
(* C28: when no POST is between the storing of its file and its INSERT,    *)
(* every row an upload inserted names a file of the uploads directory and  *)
(* every file of the directory is named by exactly one row.                *)
(***************************************************************************)
C28_FilesMatchRows ==
    pending = <<>> =>
        /\ \A k \in 1..Len(rows) :
               rows[k].id \in DOMAIN sent => rows[k].filename \in DOMAIN files
        /\ \A n \in DOMAIN files :
               Cardinality({k \in 1..Len(rows) : rows[k].filename = n}) = 1

\* fetchRecordings is invoked as q in this step
ListStarted(q) == lq[q] = "unused" /\ lq'[q] = "inflight"

(***************************************************************************)
(* C29: loading is true while a list request is in flight; a list request  *)
(* that fails leaves the displayed recordings as they were and sets the    *)
(* error; a list request that starts clears the error.                     *)
(***************************************************************************)
C29_LoadingWhileInFlight ==
    /\ []((\E q \in ListRequests : lq[q] = "inflight") => loading)
    /\ [][\A q \in ListRequests :
             /\ ListFails(q) => recordings' = recordings /\ listError' # ""
             /\ ListStarted(q) => listError' = ""]_vars

\* upload u succeeds in this step
UploadSuccess(u) == UploadResponse(u) /\ upPc'[u] = "resolved"

\* the state of this render with no blob in recordedChunks
NoArtifact == [Cur EXCEPT !.recordedChunks = 0]

(***************************************************************************)
(* C30: an upload that succeeds increments refreshKey by 1 and starts one  *)
(* list request; nothing else changes refreshKey or starts a list          *)
(* request, an upload that fails in particular; handleUpload called with   *)
(* no blob in recordedChunks posts nothing and leaves the state, and so    *)
(* uploadStatus, as it was.                                                *)
(***************************************************************************)
C30_RefreshPerUpload ==
    /\ [][\A u \in Uploads :
             /\ UploadSuccess(u) =>
                    /\ refreshKey' = refreshKey + 1
                    /\ Cardinality({q \in ListRequests : ListStarted(q)}) = 1
             /\ UploadFailure(u) =>
                    /\ refreshKey' = refreshKey
                    /\ \A q \in ListRequests : ~ListStarted(q)]_vars
    /\ [][(refreshKey' # refreshKey \/ \E q \in ListRequests : ListStarted(q))
             => \E u \in Uploads : UploadSuccess(u)]_vars
    /\ [](~PostsBlob(NoArtifact) /\ handleUpload(NoArtifact) = NoArtifact)

\* of two uploads one has failed and one has succeeded, and the one list
\* request the success started has been answered
C30_Witness ==
    /\ \E u, v \in Uploads : upPc[u] = "rejected" /\ upPc[v] = "resolved"
    /\ refreshKey = 1
    /\ lq[2] = "done" /\ lq[3] = "unused"

====
